---- MODULE Spec2Model ----
(***************************************************************************)
(* Model of src/src/utils/qrCode.ts: the validators, the string builders,  *)
(* and generateQRCode (dispatch, rasterizer call, error normalisation).    *)
(*                                                                         *)
(* A JavaScript string is a sequence of one-character strings, so that     *)
(* trim, the regular expressions, encodeURIComponent and the URL parser    *)
(* are computed character by character.  Error messages are TLA+ strings.  *)
(***************************************************************************)
EXTENDS Integers, Sequences, FiniteSets, TLC

\* Longest generated input over the small alphabets below.
MaxLen == 3
\* Longest generated e-mail address candidate (the shortest match has 5).
MaxEmailLen == 5

(***************************************************************************)
(* Characters.                                                             *)
(***************************************************************************)
\* The members of the input alphabets that String.prototype.trim strips and
\* that the regular expression class \s matches.
WhiteSpace == {" ", "\t", "\n", "\r"}

\* Line feed, carriage return, tab.
ControlChars == {"\n", "\r", "\t"}

Digits == {"0", "1", "2", "3", "4", "5", "6", "7", "8", "9"}

UpperCase ==
  <<"A", "B", "C", "D", "E", "F", "G", "H", "I", "J", "K", "L", "M",
    "N", "O", "P", "Q", "R", "S", "T", "U", "V", "W", "X", "Y", "Z">>

LowerCase ==
  <<"a", "b", "c", "d", "e", "f", "g", "h", "i", "j", "k", "l", "m",
    "n", "o", "p", "q", "r", "s", "t", "u", "v", "w", "x", "y", "z">>

IsUpper(c) == \E i \in 1..26 : UpperCase[i] = c

IsAlpha(c) == \E i \in 1..26 : UpperCase[i] = c \/ LowerCase[i] = c

LowerChar(c) ==
  IF IsUpper(c) THEN LowerCase[CHOOSE i \in 1..26 : UpperCase[i] = c] ELSE c

\* String.prototype.toLowerCase
toLowerCase(s) == [i \in 1..Len(s) |-> LowerChar(s[i])]

\* The TLA+ string spelled by a character sequence.
RECURSIVE Join(_)
Join(s) == IF s = <<>> THEN "" ELSE Head(s) \o Join(Tail(s))

\* Concatenation of a sequence of character sequences.
RECURSIVE Concat(_)
Concat(ss) == IF ss = <<>> THEN <<>> ELSE Head(ss) \o Concat(Tail(ss))

\* Array.prototype.join with a separator.
RECURSIVE JoinWith(_, _)
JoinWith(ss, sep) ==
  IF ss = <<>> THEN <<>>
  ELSE IF Len(ss) = 1 THEN ss[1]
  ELSE ss[1] \o sep \o JoinWith(Tail(ss), sep)

RECURSIVE TrimStart(_)
TrimStart(s) ==
  IF s # <<>> /\ Head(s) \in WhiteSpace THEN TrimStart(Tail(s)) ELSE s

RECURSIVE TrimEnd(_)
TrimEnd(s) ==
  IF s # <<>> /\ s[Len(s)] \in WhiteSpace
  THEN TrimEnd(SubSeq(s, 1, Len(s) - 1))
  ELSE s

\* String.prototype.trim
trim(s) == TrimEnd(TrimStart(s))

\* s.replace(/c/g, '') for a single character c.
RemoveChar(s, c) == SelectSeq(s, LAMBDA x : x # c)

\* All sequences over alphabet A of length at most n.
Strings(A, n) == UNION {[1..k -> A] : k \in 0..n}

(***************************************************************************)
(* Errors.  A thrown value is either an Error instance carrying a message  *)
(* or some other value.                                                    *)
(***************************************************************************)
Error(msg) == [isError |-> TRUE, message |-> msg]

NonErrorValue == [isError |-> FALSE, message |-> "thrown value that is not an Error"]

\* A function result: a returned value, or a thrown value.
Return(v) == [threw |-> FALSE, value |-> v, thrown |-> Error("")]

Throw(t) == [threw |-> TRUE, value |-> <<>>, thrown |-> t]

\* What a validator of return type void yields when it returns normally.
NoError == ""

(***************************************************************************)
(* new URL(input) and URL.prototype.toString, as the URL Standard defines  *)
(* them for an input without a base URL.  Modelled: the stripping of       *)
(* leading and trailing C0-control-or-space, the removal of tab and        *)
(* newline, the scheme state, the special schemes' slashes, host and port  *)
(* states, host lower-casing, the empty path becoming "/", and the         *)
(* percent-encoding of a space in a path.  Credentials, query, fragment,   *)
(* dot segments, numeric hosts and IDNA are not modelled, and UrlInputs    *)
(* holds no input that exercises them.                                     *)
(***************************************************************************)
SchemeChar(c) == IsAlpha(c) \/ c \in Digits \/ c \in {"+", "-", "."}

\* First index of s holding a member of cs, Len(s) + 1 when there is none.
FirstIndex(s, cs) ==
  LET hits == {i \in 1..Len(s) : s[i] \in cs}
  IN  IF hits = {} THEN Len(s) + 1
      ELSE CHOOSE i \in hits : \A j \in hits : i <= j

\* Index of the ":" that ends a scheme at the start of s, 0 when s starts
\* with no scheme.
SchemeEnd(s) ==
  LET colon == FirstIndex(s, {":"})
  IN  IF /\ s # <<>>
         /\ IsAlpha(s[1])
         /\ colon <= Len(s)
         /\ \A j \in 2..(colon - 1) : SchemeChar(s[j])
      THEN colon
      ELSE 0

SpecialSchemes == {"http", "https", "ws", "wss", "ftp"}

DefaultPort(scheme) ==
  CASE scheme = "http"  -> 80
    [] scheme = "https" -> 443
    [] scheme = "ws"    -> 80
    [] scheme = "wss"   -> 443
    [] scheme = "ftp"   -> 21

ForbiddenHostChars == WhiteSpace \cup {"<", ">", "[", "]", "^", "|", "%"}

DigitChars == <<"0", "1", "2", "3", "4", "5", "6", "7", "8", "9">>

DigitValue(c) == CHOOSE n \in 0..9 : DigitChars[n + 1] = c

RECURSIVE DecimalValue(_)
DecimalValue(ds) ==
  IF ds = <<>> THEN 0
  ELSE 10 * DecimalValue(SubSeq(ds, 1, Len(ds) - 1)) + DigitValue(ds[Len(ds)])

RECURSIVE DecimalDigits(_)
DecimalDigits(n) ==
  IF n < 10 THEN <<DigitChars[n + 1]>>
  ELSE DecimalDigits(n \div 10) \o DecimalDigits(n % 10)

RECURSIVE DropSlashes(_)
DropSlashes(s) ==
  IF s # <<>> /\ Head(s) \in {"/", "\\"} THEN DropSlashes(Tail(s)) ELSE s

\* The path percent-encode set, restricted to the input alphabets.
EncodePath(s) ==
  Concat([i \in 1..Len(s) |-> IF s[i] = " " THEN <<"%", "2", "0">> ELSE <<s[i]>>])

UrlFailure == [ok |-> FALSE, href |-> <<>>]

ParseSpecial(scheme, afterColon) ==
  LET rest      == DropSlashes(afterColon)
      cut       == FirstIndex(rest, {"/", "\\", "?", "#"})
      authority == SubSeq(rest, 1, cut - 1)
      tail      == SubSeq(rest, cut, Len(rest))
      colon     == FirstIndex(authority, {":"})
      host      == SubSeq(authority, 1, colon - 1)
      port      == SubSeq(authority, colon + 1, Len(authority))
      portShown == IF port = <<>> \/ DecimalValue(port) = DefaultPort(Join(scheme))
                   THEN <<>>
                   ELSE <<":">> \o DecimalDigits(DecimalValue(port))
  IN  IF \/ host = <<>>
         \/ \E i \in 1..Len(host) : host[i] \in ForbiddenHostChars
         \/ \E i \in 1..Len(port) : port[i] \notin Digits
      THEN UrlFailure
      ELSE IF DecimalValue(port) > 65535
      THEN UrlFailure
      ELSE [ok   |-> TRUE,
            href |-> scheme \o <<":", "/", "/">> \o toLowerCase(host) \o portShown
                     \o (IF tail = <<>> THEN <<"/">> ELSE EncodePath(tail))]

ParseURL(input) ==
  LET stripped == SelectSeq(trim(input), LAMBDA c : c \notin ControlChars)
      colon    == SchemeEnd(stripped)
      scheme   == toLowerCase(SubSeq(stripped, 1, colon - 1))
      rest     == SubSeq(stripped, colon + 1, Len(stripped))
  IN  IF colon = 0 THEN UrlFailure
      ELSE IF Join(scheme) \in SpecialSchemes THEN ParseSpecial(scheme, rest)
      ELSE [ok |-> TRUE, href |-> scheme \o <<":">> \o rest]

HttpsPrefix == <<"h", "t", "t", "p", "s", ":", "/", "/">>

\* validateUrl with the two attempts in the other order.
validateUrl_PrefixFirst(url) ==
  LET trimmedUrl == trim(url)
  IN  IF trimmedUrl = <<>> THEN Throw(Error("Please enter a URL"))
      ELSE LET urlWithProtocol == ParseURL(HttpsPrefix \o trimmedUrl)
           IN  IF urlWithProtocol.ok THEN Return(urlWithProtocol.href)
               ELSE LET urlObj == ParseURL(trimmedUrl)
                    IN  IF urlObj.ok THEN Return(urlObj.href)
                        ELSE Throw(Error("Please enter a valid website URL"))

validateUrl(url) ==
  LET trimmedUrl == trim(url)
  IN  IF trimmedUrl = <<>> THEN Throw(Error("Please enter a URL"))
      ELSE LET urlObj == ParseURL(trimmedUrl)
           IN  IF urlObj.ok THEN Return(urlObj.href)
               ELSE LET urlWithProtocol == ParseURL(HttpsPrefix \o trimmedUrl)
                    IN  IF urlWithProtocol.ok THEN Return(urlWithProtocol.href)
                        ELSE Throw(Error("Please enter a valid website URL"))

(***************************************************************************)
(* The regular expressions.                                                *)
(***************************************************************************)
\* s.match(/^[^\s@]+@[^\s@]+\.[^\s@]+$/) is not null
MatchesEmail(s) ==
  LET Plain(i, j) == i <= j /\ \A k \in i..j : s[k] \notin WhiteSpace \cup {"@"}
  IN  \E at \in 1..Len(s) : \E dot \in 1..Len(s) :
        /\ at < dot
        /\ s[at] = "@"
        /\ s[dot] = "."
        /\ Plain(1, at - 1)
        /\ Plain(at + 1, dot - 1)
        /\ Plain(dot + 1, Len(s))

\* The class [+\d\s-()]
PhoneChars == {"+", "-", "(", ")"} \cup Digits \cup WhiteSpace

\* s.match(/^[+\d\s-()]+$/) is not null
MatchesPhone(s) == s # <<>> /\ \A i \in 1..Len(s) : s[i] \in PhoneChars

\* field.replace(/([A-Z])/g, ' $1')
SpaceBeforeCapitals(s) ==
  Concat([i \in 1..Len(s) |-> IF IsUpper(s[i]) THEN <<" ", s[i]>> ELSE <<s[i]>>])

(***************************************************************************)
(* The validators of return type void yield NoError or the message of the  *)
(* Error they throw.                                                       *)
(***************************************************************************)
phoneFields ==
  << <<"m", "o", "b", "i", "l", "e">>,
     <<"p", "h", "o", "n", "e">>,
     <<"w", "o", "r", "k", "P", "h", "o", "n", "e">>,
     <<"f", "a", "x">>>>

\* PhoneFieldMessage without the call of toLowerCase.
PhoneFieldMessage_NoLowerCase(field) ==
  "Please enter a valid " \o Join(SpaceBeforeCapitals(field))

\* The message of the Error thrown in the callback of phoneFields.forEach.
PhoneFieldMessage(field) ==
  "Please enter a valid " \o Join(toLowerCase(SpaceBeforeCapitals(field)))

\* The callback of phoneFields.forEach, for one field.
PhoneFieldCheck(data, field) ==
  IF data[Join(field)] # <<>> /\ ~MatchesPhone(data[Join(field)])
  THEN PhoneFieldMessage(field)
  ELSE NoError

\* phoneFields.forEach(...) from index i on: the first throw ends the loop.
RECURSIVE PhoneFieldsFrom(_, _)
PhoneFieldsFrom(data, i) ==
  IF i > Len(phoneFields) THEN NoError
  ELSE IF PhoneFieldCheck(data, phoneFields[i]) # NoError
  THEN PhoneFieldCheck(data, phoneFields[i])
  ELSE PhoneFieldsFrom(data, i + 1)

\* validateVCardData with the phone fields checked before the e-mail address.
validateVCardData_PhonesBeforeEmail(data) ==
  IF trim(data.firstName) = <<>> \/ trim(data.lastName) = <<>>
  THEN "Please enter both first and last name"
  ELSE IF PhoneFieldsFrom(data, 1) # NoError
  THEN PhoneFieldsFrom(data, 1)
  ELSE IF data.email # <<>> /\ ~MatchesEmail(data.email)
  THEN "Please enter a valid email address"
  ELSE NoError

validateVCardData(data) ==
  IF trim(data.firstName) = <<>> \/ trim(data.lastName) = <<>>
  THEN "Please enter both first and last name"
  ELSE IF data.email # <<>> /\ ~MatchesEmail(data.email)
  THEN "Please enter a valid email address"
  ELSE PhoneFieldsFrom(data, 1)

validateEmailData(data) ==
  IF trim(data.email) = <<>> THEN "Please enter an email address"
  ELSE IF ~MatchesEmail(data.email) THEN "Please enter a valid email address"
  ELSE NoError

validateSMSData(data) ==
  IF trim(data.phone) = <<>> THEN "Please enter a phone number"
  ELSE IF ~MatchesPhone(data.phone) THEN "Please enter a valid phone number"
  ELSE NoError

validateText(text) ==
  IF trim(text) = <<>> THEN "Please enter some text" ELSE NoError

\* The members of the type 'WPA' | 'WEP' | 'nopass'.
WPA == <<"W", "P", "A">>

WEP == <<"W", "E", "P">>

Nopass == <<"n", "o", "p", "a", "s", "s">>

\* validateWiFiData without the password check.
validateWiFiData_NoPasswordCheck(data) ==
  IF trim(data.ssid) = <<>> THEN "Please enter a network name (SSID)"
  ELSE NoError

validateWiFiData(data) ==
  IF trim(data.ssid) = <<>> THEN "Please enter a network name (SSID)"
  ELSE IF data.encryption # Nopass /\ trim(data.password) = <<>>
  THEN "Please enter a network password"
  ELSE NoError

(***************************************************************************)
(* encodeURIComponent: the unreserved characters stay, every other         *)
(* character becomes the percent-encoding of its UTF-8 bytes.              *)
(* PercentCode covers the ASCII characters of the input alphabets; the     *)
(* inputs hold no lone surrogate, for which the function throws URIError.  *)
(***************************************************************************)
Unreserved ==
  {"-", "_", ".", "!", "~", "*", "'", "(", ")"}
    \cup Digits \cup {UpperCase[i] : i \in 1..26} \cup {LowerCase[i] : i \in 1..26}

PercentCode(c) ==
  CASE c = " "  -> <<"%", "2", "0">>
    [] c = "\t" -> <<"%", "0", "9">>
    [] c = "\n" -> <<"%", "0", "A">>
    [] c = "\r" -> <<"%", "0", "D">>
    [] c = "#"  -> <<"%", "2", "3">>
    [] c = "$"  -> <<"%", "2", "4">>
    [] c = "%"  -> <<"%", "2", "5">>
    [] c = "&"  -> <<"%", "2", "6">>
    [] c = "+"  -> <<"%", "2", "B">>
    [] c = ","  -> <<"%", "2", "C">>
    [] c = "/"  -> <<"%", "2", "F">>
    [] c = ":"  -> <<"%", "3", "A">>
    [] c = ";"  -> <<"%", "3", "B">>
    [] c = "="  -> <<"%", "3", "D">>
    [] c = "?"  -> <<"%", "3", "F">>
    [] c = "@"  -> <<"%", "4", "0">>

encodeURIComponent(s) ==
  Concat([i \in 1..Len(s) |-> IF s[i] \in Unreserved THEN <<s[i]>> ELSE PercentCode(s[i])])

(***************************************************************************)
(* The string builders.  Each validates first; the validator's Error       *)
(* leaves the builder.                                                     *)
(***************************************************************************)
LF == <<"\n">>

\* `\nNAME:${value}` when the trimmed value is not empty, else nothing.
OptionalLine(name, value) ==
  IF trim(value) # <<>> THEN LF \o name \o <<":">> \o trim(value) ELSE <<>>

\* The array joined with ';' into the ADR value.
address(data) ==
  JoinWith(<< <<>>, <<>>, trim(data.street), trim(data.city), trim(data.state),
              trim(data.zip), trim(data.country) >>, <<";">>)

generateVCardString(data) ==
  IF validateVCardData(data) # NoError THEN Throw(Error(validateVCardData(data)))
  ELSE Return(
    <<"B", "E", "G", "I", "N", ":", "V", "C", "A", "R", "D">> \o LF
    \o <<"V", "E", "R", "S", "I", "O", "N", ":", "3", ".", "0">> \o LF
    \o <<"F", "N", ":">> \o trim(data.firstName) \o <<" ">> \o trim(data.lastName) \o LF
    \o <<"N", ":">> \o trim(data.lastName) \o <<";">> \o trim(data.firstName)
    \o <<";", ";", ";">>
    \o OptionalLine(<<"E", "M", "A", "I", "L">>, data.email)
    \o OptionalLine(<<"T", "E", "L", ";", "T", "Y", "P", "E", "=", "C", "E", "L", "L">>, data.mobile)
    \o OptionalLine(<<"T", "E", "L", ";", "T", "Y", "P", "E", "=", "H", "O", "M", "E">>, data.phone)
    \o OptionalLine(<<"T", "E", "L", ";", "T", "Y", "P", "E", "=", "W", "O", "R", "K">>, data.workPhone)
    \o OptionalLine(<<"T", "E", "L", ";", "T", "Y", "P", "E", "=", "F", "A", "X">>, data.fax)
    \o OptionalLine(<<"O", "R", "G">>, data.company)
    \o OptionalLine(<<"T", "I", "T", "L", "E">>, data.jobTitle)
    \o (IF RemoveChar(address(data), ";") # <<>>
        THEN LF \o <<"A", "D", "R", ":">> \o address(data)
        ELSE <<>>)
    \o OptionalLine(<<"U", "R", "L">>, data.website)
    \o LF \o <<"E", "N", "D", ":", "V", "C", "A", "R", "D">>)

generateEmailString(data) ==
  IF validateEmailData(data) # NoError THEN Throw(Error(validateEmailData(data)))
  ELSE LET subject == encodeURIComponent(data.subject)
           body    == encodeURIComponent(data.body)
       IN  Return(<<"m", "a", "i", "l", "t", "o", ":">> \o data.email
                  \o <<"?", "s", "u", "b", "j", "e", "c", "t", "=">> \o subject
                  \o <<"&", "b", "o", "d", "y", "=">> \o body)

generateSMSString(data) ==
  IF validateSMSData(data) # NoError THEN Throw(Error(validateSMSData(data)))
  ELSE LET message == encodeURIComponent(data.message)
       IN  Return(<<"s", "m", "s", ":">> \o data.phone
                  \o (IF message # <<>> THEN <<":">> \o message ELSE <<>>))

\* generateWiFiString leaving the P: segment out of an open network's text.
generateWiFiString_NoPasswordForNopass(data) ==
  IF validateWiFiData(data) # NoError THEN Throw(Error(validateWiFiData(data)))
  ELSE Return(<<"W", "I", "F", "I", ":", "T", ":">> \o data.encryption
              \o <<";", "S", ":">> \o data.ssid
              \o (IF data.encryption # Nopass THEN <<";", "P", ":">> \o data.password ELSE <<>>)
              \o (IF data.hidden THEN <<";", "H", ":", "t", "r", "u", "e">> ELSE <<>>)
              \o <<";", ";">>)

generateWiFiString(data) ==
  IF validateWiFiData(data) # NoError THEN Throw(Error(validateWiFiData(data)))
  ELSE Return(<<"W", "I", "F", "I", ":", "T", ":">> \o data.encryption
              \o <<";", "S", ":">> \o data.ssid
              \o <<";", "P", ":">> \o data.password
              \o (IF data.hidden THEN <<";", "H", ":", "t", "r", "u", "e">> ELSE <<>>)
              \o <<";", ";">>)

(***************************************************************************)
(* generateQRCode up to the call of the rasterizer: the switch on type.    *)
(***************************************************************************)
\* EncodeData with the default case falling into the text case's assignment.
EncodeData_DefaultAsText(type, params) ==
  CASE type = "url"   -> validateUrl(params.url)
    [] type = "vcard" -> generateVCardString(params.vcardData)
    [] type = "email" -> generateEmailString(params.emailData)
    [] type = "sms"   -> generateSMSString(params.smsData)
    [] type = "text"  -> IF validateText(params.text) # NoError
                         THEN Throw(Error(validateText(params.text)))
                         ELSE Return(params.text)
    [] type = "wifi"  -> generateWiFiString(params.wifiData)
    [] OTHER          -> Return(params.text)

EncodeData(type, params) ==
  CASE type = "url"   -> validateUrl(params.url)
    [] type = "vcard" -> generateVCardString(params.vcardData)
    [] type = "email" -> generateEmailString(params.emailData)
    [] type = "sms"   -> generateSMSString(params.smsData)
    [] type = "text"  -> IF validateText(params.text) # NoError
                         THEN Throw(Error(validateText(params.text)))
                         ELSE Return(params.text)
    [] type = "wifi"  -> generateWiFiString(params.wifiData)
    [] OTHER          -> Throw(Error("Invalid QR code type"))

\* The catch clause: an Error is rethrown as it is, any other thrown value
\* is replaced by the generic Error.
CatchClause(error) ==
  IF error.isError THEN error
  ELSE Error("Failed to generate QR code. Please try again.")

(***************************************************************************)
(* The calls explored: one type tag, the slot of that type filled from a   *)
(* bounded set of values, the slots the switch does not read left empty.   *)
(***************************************************************************)
TextAlphabet == {"a", " ", "\n", ";"}

PhoneAlphabet == {"1", "-", " ", "\n", "x"}

EmailAlphabet == {"a", "@", ".", " "}

UrlAlphabet == {"a", "A", "/", " ", "\n"}

TextInputs == Strings(TextAlphabet, MaxLen)

PhoneInputs == Strings(PhoneAlphabet, MaxLen)

EmailInputs == Strings(EmailAlphabet, MaxEmailLen)

UrlInputs ==
  Strings(UrlAlphabet, MaxLen) \cup
  { <<"e", "x", "a", "m", "p", "l", "e", ".", "c", "o", "m">>,
    <<"h", "t", "t", "p", ":", "/", "/">>,
    <<"h", "t", "t", "p", "s", ":", "/", "/", "e", "x", "a", "m", "p", "l", "e", ".", "c", "o", "m">>,
    <<" ", "H", "T", "T", "P", ":", "/", "/", "E", "x", "a", "m", "p", "l", "e", ".", "c", "o", "m", "/", "a", " ", "b", "\n">>,
    <<"h", "t", "t", "p", ":", "/", "/", "a", ":", "8", "0", "8", "0">>,
    <<"h", "t", "t", "p", "s", ":", "/", "/", "a", ":", "4", "4", "3", "/", "b">>,
    <<"h", "t", "t", "p", "s", ":", "/", "/", "a", " ", "b">>,
    <<"m", "a", "i", "l", "t", "o", ":", "a">>,
    <<"l", "o", "c", "a", "l", "h", "o", "s", "t", ":", "3", "0", "0", "0">>,
    <<":", "a">> }

VCardFields ==
  {"firstName", "lastName", "mobile", "phone", "workPhone", "fax", "email",
   "company", "jobTitle", "street", "city", "zip", "state", "country", "website"}

OptionalFields == VCardFields \ {"firstName", "lastName"}

EmptyVCard == [f \in VCardFields |-> <<>>]

\* One valid value per field, all different.
SampleVCard ==
  [firstName |-> <<"J", "a", "n", "e">>,
   lastName  |-> <<"D", "o", "e">>,
   mobile    |-> <<"+", "1", " ", "5", "5", "5", "-", "1", "2", "3", "-", "4", "5", "6", "7">>,
   phone     |-> <<"(", "2", ")">>,
   workPhone |-> <<"3">>,
   fax       |-> <<"4">>,
   email     |-> <<"j", "@", "d", ".", "e">>,
   company   |-> <<"c", "o">>,
   jobTitle  |-> <<"j", "o", "b">>,
   street    |-> <<"s", "t">>,
   city      |-> <<"c", "i">>,
   zip       |-> <<"z">>,
   state     |-> <<"s", "a">>,
   country   |-> <<"c", "y">>,
   website   |-> <<"w", ".", "e">>]

NamedVCard ==
  [EmptyVCard EXCEPT !.firstName = SampleVCard.firstName,
                     !.lastName = SampleVCard.lastName]

\* Every subset of the optional fields present.
PresenceVCards ==
  { [f \in VCardFields |->
       IF f \in present \cup {"firstName", "lastName"} THEN SampleVCard[f] ELSE <<>>]
    : present \in SUBSET OptionalFields }

NameSamples == {<<>>, <<" ">>, <<"a">>}

EmailSamples == {<<>>, <<"x">>, <<"a", "@", "b", ".", "c">>}

PhoneSamples == {<<>>, <<"1">>, <<"x">>}

\* Every combination of passing and failing validated fields.
ValidationVCards ==
  { [EmptyVCard EXCEPT !.firstName = fn, !.lastName = ln, !.email = e,
                       !.mobile = m, !.phone = p, !.workPhone = w, !.fax = x]
    : fn \in NameSamples, ln \in NameSamples, e \in EmailSamples,
      m \in PhoneSamples, p \in PhoneSamples, w \in PhoneSamples, x \in PhoneSamples }

\* One field drawn from its alphabet, beside valid names.
SingleFieldVCards ==
  { [NamedVCard EXCEPT ![f] = v]
    : f \in VCardFields \ {"mobile", "phone", "workPhone", "fax", "email"},
      v \in TextInputs }
  \cup { [NamedVCard EXCEPT ![f] = v]
         : f \in {"mobile", "phone", "workPhone", "fax"}, v \in PhoneInputs }
  \cup { [NamedVCard EXCEPT !.email = v] : v \in EmailInputs }

VCardInputs == PresenceVCards \cup ValidationVCards \cup SingleFieldVCards

EmailDataInputs ==
  { [email |-> e, subject |-> <<>>, body |-> <<>>] : e \in EmailInputs }
  \cup { [email |-> <<"a", "@", "b", ".", "c", "o", "m">>, subject |-> s, body |-> b]
         : s \in TextInputs \cup {<<"H", "i", " ", "t", "h", "e", "r", "e">>},
           b \in {<<>>, <<"a", "\n", "&">>} }

SMSDataInputs ==
  { [phone |-> p, message |-> m]
    : p \in PhoneInputs \cup {<<"5", "5", "5", "-", "1", "2", "3", "4">>},
      m \in {<<>>, <<" ">>, <<"a", "\n", ";">>} }
  \cup { [phone |-> <<"1">>, message |-> m] : m \in TextInputs }

WiFiDataInputs ==
  { [ssid |-> s, password |-> p, encryption |-> e, hidden |-> h]
    : s \in TextInputs \cup {<<"H", "o", "m", "e">>},
      p \in {<<>>, <<" ">>, <<"p", ";">>},
      e \in {WPA, WEP, Nopass},
      h \in BOOLEAN }
  \cup { [ssid |-> <<"H", "o", "m", "e">>, password |-> p, encryption |-> e, hidden |-> FALSE]
         : p \in TextInputs, e \in {WPA, Nopass} }

EmptyParams ==
  [url       |-> <<>>,
   vcardData |-> EmptyVCard,
   emailData |-> [email |-> <<>>, subject |-> <<>>, body |-> <<>>],
   smsData   |-> [phone |-> <<>>, message |-> <<>>],
   text      |-> <<>>,
   wifiData  |-> [ssid |-> <<>>, password |-> <<>>, encryption |-> WPA, hidden |-> FALSE]]

QRCodeTypes == {"url", "vcard", "email", "sms", "text", "wifi"}

\* A tag outside the union type, as an untyped caller can pass.
UnknownTypes == {"pdf"}

Calls ==
  { <<"url", [EmptyParams EXCEPT !.url = v]>> : v \in UrlInputs }
  \cup { <<"vcard", [EmptyParams EXCEPT !.vcardData = v]>> : v \in VCardInputs }
  \cup { <<"email", [EmptyParams EXCEPT !.emailData = v]>> : v \in EmailDataInputs }
  \cup { <<"sms", [EmptyParams EXCEPT !.smsData = v]>> : v \in SMSDataInputs }
  \cup { <<"text", [EmptyParams EXCEPT !.text = v]>> : v \in TextInputs }
  \cup { <<"wifi", [EmptyParams EXCEPT !.wifiData = v]>> : v \in WiFiDataInputs }
  \cup { <<t, [EmptyParams EXCEPT !.text = v]>> : t \in UnknownTypes, v \in {<<>>, <<"a">>} }

(***************************************************************************)
(* One call of generateQRCode.  The await splits it in two steps: up to    *)
(* the call of QRCode.toDataURL, and the settling of the promise it        *)
(* returned.  The rasterizer is external: it resolves with the image of    *)
(* the text it was given, or rejects with an Error of its own, or with a   *)
(* value that is not an Error.                                             *)
(***************************************************************************)
VARIABLES
  type,     \* the type argument
  params,   \* the params argument
  pc,       \* "called", "awaiting", "resolved" or "rejected"
  handed,   \* the texts passed to QRCode.toDataURL, in order
  result    \* how the returned promise settled

vars == <<type, params, pc, handed, result>>

Pending == [status |-> "pending", image |-> <<>>, message |-> ""]

Fulfilled(text) == [status |-> "fulfilled", image |-> text, message |-> ""]

Rejected(error) == [status |-> "rejected", image |-> <<>>, message |-> error.message]

\* The Error the rasterizer rejects with; its message is the library's own.
RasterizerError == Error("error raised by QRCode.toDataURL")

Init ==
  /\ \E call \in Calls : type = call[1] /\ params = call[2]
  /\ pc = "called"
  /\ handed = <<>>
  /\ result = Pending

\* The switch assigned data; QRCode.toDataURL(data, ...) is called and awaited.
CallRasterizer ==
  /\ pc = "called"
  /\ ~EncodeData(type, params).threw
  /\ handed' = Append(handed, EncodeData(type, params).value)
  /\ pc' = "awaiting"
  /\ UNCHANGED <<type, params, result>>

\* The switch threw; the catch clause rethrows.
ThrowBeforeRasterizer ==
  /\ pc = "called"
  /\ EncodeData(type, params).threw
  /\ result' = Rejected(CatchClause(EncodeData(type, params).thrown))
  /\ pc' = "rejected"
  /\ UNCHANGED <<type, params, handed>>

\* The awaited promise resolves with the data URL of the image.
RasterizerResolves ==
  /\ pc = "awaiting"
  /\ result' = Fulfilled(handed[Len(handed)])
  /\ pc' = "resolved"
  /\ UNCHANGED <<type, params, handed>>

\* The awaited promise rejects with an Error; the catch clause runs.
RasterizerRejectsWithError ==
  /\ pc = "awaiting"
  /\ result' = Rejected(CatchClause(RasterizerError))
  /\ pc' = "rejected"
  /\ UNCHANGED <<type, params, handed>>

\* The awaited promise rejects with a value that is not an Error.
RasterizerRejectsWithOther ==
  /\ pc = "awaiting"
  /\ result' = Rejected(CatchClause(NonErrorValue))
  /\ pc' = "rejected"
  /\ UNCHANGED <<type, params, handed>>

Next ==
  \/ CallRasterizer
  \/ ThrowBeforeRasterizer
  \/ RasterizerResolves
  \/ RasterizerRejectsWithError
  \/ RasterizerRejectsWithOther

Spec == Init /\ [][Next]_vars

(***************************************************************************)
(* Properties.  The predicates below describe inputs and outcomes without  *)
(* going through the validators.                                           *)
(***************************************************************************)
\* Empty or whitespace-only.
Blank(s) == \A i \in 1..Len(s) : s[i] \in WhiteSpace

\* The call has failed with this message and returned no image.
FailsWith(msg) ==
  /\ pc = "rejected"
  /\ result.status = "rejected"
  /\ result.message = msg
  /\ result.image = <<>>

GenericMessage == "Failed to generate QR code. Please try again."

\* The number of line feeds, carriage returns and tabs in s.
ControlCount(s) == Len(SelectSeq(s, LAMBDA c : c \in ControlChars))

\* The message of the selected kind's validation, NoError when it passes.
KindValidationMessage ==
  CASE type = "url"   -> IF validateUrl(params.url).threw
                         THEN validateUrl(params.url).thrown.message
                         ELSE NoError
    [] type = "vcard" -> validateVCardData(params.vcardData)
    [] type = "email" -> validateEmailData(params.emailData)
    [] type = "sms"   -> validateSMSData(params.smsData)
    [] type = "text"  -> validateText(params.text)
    [] type = "wifi"  -> validateWiFiData(params.wifiData)
    [] OTHER          -> NoError

\* C1: the rasterizer is called at most once per call and only with the
\* selected kind validated; an unknown type tag fails with "Invalid QR code
\* type" and a payload that fails validation fails with the validation
\* message, both without a call of the rasterizer and without an image; an
\* image is returned only for the one text handed over; a settled call takes
\* no further step (no retry).
C1_RasterizerOnlyAfterValidation ==
  /\ Len(handed) <= 1
  /\ Len(handed) = 1 => type \in QRCodeTypes /\ KindValidationMessage = NoError
  /\ (pc # "called" /\ type \notin QRCodeTypes)
       => FailsWith("Invalid QR code type") /\ handed = <<>>
  /\ (pc # "called" /\ type \in QRCodeTypes /\ KindValidationMessage # NoError)
       => FailsWith(KindValidationMessage) /\ handed = <<>>
  /\ result.status = "fulfilled" => Len(handed) = 1 /\ result.image = handed[1]
  /\ pc \in {"resolved", "rejected"} => ~ENABLED Next

\* An unknown type tag has been rejected before any call of the rasterizer.
C1_Witness ==
  /\ type \notin QRCodeTypes
  /\ FailsWith("Invalid QR code type")
  /\ handed = <<>>

\* C2 as written: a blank required field fails with the kind's message, the
\* WiFi password message being claimed for every payload with encryption
\* other than nopass and a blank password.
C2_BlankRequiredFieldMessages_Original ==
  pc # "called" =>
    /\ (type = "url" /\ Blank(params.url)) => FailsWith("Please enter a URL")
    /\ (type = "vcard" /\ (Blank(params.vcardData.firstName) \/ Blank(params.vcardData.lastName)))
         => FailsWith("Please enter both first and last name")
    /\ (type = "email" /\ Blank(params.emailData.email))
         => FailsWith("Please enter an email address")
    /\ (type = "sms" /\ Blank(params.smsData.phone))
         => FailsWith("Please enter a phone number")
    /\ (type = "text" /\ Blank(params.text)) => FailsWith("Please enter some text")
    /\ (type = "wifi" /\ Blank(params.wifiData.ssid))
         => FailsWith("Please enter a network name (SSID)")
    /\ (type = "wifi" /\ params.wifiData.encryption # Nopass /\ Blank(params.wifiData.password))
         => FailsWith("Please enter a network password")

\* C2 (amended): a blank required field fails with the kind's message; the
\* WiFi password message is the one of a payload whose ssid is not blank,
\* whose encryption is not nopass and whose password is blank.
C2_BlankRequiredFieldMessages ==
  pc # "called" =>
    /\ (type = "url" /\ Blank(params.url)) => FailsWith("Please enter a URL")
    /\ (type = "vcard" /\ (Blank(params.vcardData.firstName) \/ Blank(params.vcardData.lastName)))
         => FailsWith("Please enter both first and last name")
    /\ (type = "email" /\ Blank(params.emailData.email))
         => FailsWith("Please enter an email address")
    /\ (type = "sms" /\ Blank(params.smsData.phone))
         => FailsWith("Please enter a phone number")
    /\ (type = "text" /\ Blank(params.text)) => FailsWith("Please enter some text")
    /\ (type = "wifi" /\ Blank(params.wifiData.ssid))
         => FailsWith("Please enter a network name (SSID)")
    /\ (type = "wifi" /\ ~Blank(params.wifiData.ssid)
          /\ params.wifiData.encryption # Nopass /\ Blank(params.wifiData.password))
         => FailsWith("Please enter a network password")

\* A secured network with a name and a whitespace-only password was rejected
\* with the password message.
C2_Witness ==
  /\ type = "wifi"
  /\ ~Blank(params.wifiData.ssid)
  /\ params.wifiData.encryption = WPA
  /\ params.wifiData.password = <<" ">>
  /\ FailsWith("Please enter a network password")

\* C3: a call that fails after its text was handed to the rasterizer fails
\* with the generic message; a message other than the generic one is that of
\* a failure before the rasterizer was called.
C3_RasterizerFailureIsGeneric ==
  /\ (pc = "rejected" /\ Len(handed) = 1) => result.message = GenericMessage
  /\ (pc = "rejected" /\ result.message # GenericMessage) => handed = <<>>

\* params with every line feed, carriage return and tab deleted from every
\* field value of the selected kind's payload.
WithoutControls(s) == SelectSeq(s, LAMBDA c : c \notin ControlChars)

CleanVCard(data) == [f \in VCardFields |-> WithoutControls(data[f])]

\* C4: the text handed to the rasterizer for a vcard holds only the control
\* characters the builder inserts (as many as for the same contact with the
\* control characters deleted from its field values), and for an email, sms
\* or wifi payload it holds none.
C4_NoControlCharacterFromFields ==
  Len(handed) = 1 =>
    /\ type = "vcard" =>
         ControlCount(handed[1]) =
           ControlCount(generateVCardString(CleanVCard(params.vcardData)).value)
    /\ type \in {"email", "sms", "wifi"} => ControlCount(handed[1]) = 0

ExampleCom == <<"e", "x", "a", "m", "p", "l", "e", ".", "c", "o", "m">>

\* C5: for a url that is not blank, the text handed to the rasterizer is the
\* canonical string of the trimmed input parsed as it is, or, only when that
\* parse fails, of the trimmed input parsed behind "https://"; when both
\* parses fail the call fails with "Please enter a valid website URL";
\* "example.com" yields "https://example.com/".
C5_UrlTwoAttempts ==
  (type = "url" /\ ~Blank(params.url) /\ pc # "called") =>
    LET bare     == ParseURL(trim(params.url))
        prefixed == ParseURL(HttpsPrefix \o trim(params.url))
    IN  /\ bare.ok => handed = <<bare.href>>
        /\ (~bare.ok /\ prefixed.ok) => handed = <<prefixed.href>>
        /\ (~bare.ok /\ ~prefixed.ok)
             => FailsWith("Please enter a valid website URL") /\ handed = <<>>
        /\ params.url = ExampleCom
             => Len(handed) = 1 /\ Join(handed[1]) = "https://example.com/"

\* "example.com" was handed to the rasterizer as "https://example.com/".
C5_Witness ==
  /\ type = "url"
  /\ params.url = ExampleCom
  /\ pc = "awaiting"
  /\ Len(handed) = 1
  /\ Join(handed[1]) = "https://example.com/"

\* The lines of the vCard as the format is described: four mandatory lines,
\* the optional lines in their order, END:VCARD.
OneLine(name, value) == << name \o <<":">> \o trim(value) >>

LineIfPresent(name, value) == IF Blank(value) THEN <<>> ELSE OneLine(name, value)

ExpectedVCardLines(d) ==
  << <<"B", "E", "G", "I", "N", ":", "V", "C", "A", "R", "D">>,
     <<"V", "E", "R", "S", "I", "O", "N", ":", "3", ".", "0">>,
     <<"F", "N", ":">> \o trim(d.firstName) \o <<" ">> \o trim(d.lastName),
     <<"N", ":">> \o trim(d.lastName) \o <<";">> \o trim(d.firstName) \o <<";", ";", ";">> >>
  \o LineIfPresent(<<"E", "M", "A", "I", "L">>, d.email)
  \o LineIfPresent(<<"T", "E", "L", ";", "T", "Y", "P", "E", "=", "C", "E", "L", "L">>, d.mobile)
  \o LineIfPresent(<<"T", "E", "L", ";", "T", "Y", "P", "E", "=", "H", "O", "M", "E">>, d.phone)
  \o LineIfPresent(<<"T", "E", "L", ";", "T", "Y", "P", "E", "=", "W", "O", "R", "K">>, d.workPhone)
  \o LineIfPresent(<<"T", "E", "L", ";", "T", "Y", "P", "E", "=", "F", "A", "X">>, d.fax)
  \o LineIfPresent(<<"O", "R", "G">>, d.company)
  \o LineIfPresent(<<"T", "I", "T", "L", "E">>, d.jobTitle)
  \o (IF \A f \in {"street", "city", "state", "zip", "country"} : Blank(d[f])
      THEN <<>>
      ELSE << <<"A", "D", "R", ":", ";", ";">> \o trim(d.street) \o <<";">> \o trim(d.city)
              \o <<";">> \o trim(d.state) \o <<";">> \o trim(d.zip)
              \o <<";">> \o trim(d.country) >>)
  \o LineIfPresent(<<"U", "R", "L">>, d.website)
  \o << <<"E", "N", "D", ":", "V", "C", "A", "R", "D">> >>

\* C6: the text handed to the rasterizer for a validated contact is exactly
\* the mandatory lines, then each optional line if and only if its field is
\* not blank (ADR if and only if some address component is not blank), in the
\* fixed order, then END:VCARD, joined by line feeds.
C6_VCardExactLines ==
  (type = "vcard" /\ Len(handed) = 1) =>
    handed[1] = JoinWith(ExpectedVCardLines(params.vcardData), LF)

Home == <<"H", "o", "m", "e">>

\* C7: a WiFi payload that passes validation is handed over as
\* WIFI:T:<encryption>;S:<ssid>;P:<password>, then ;H:true exactly when hidden,
\* then ;; with the password as given; with encryption nopass the password
\* causes no failure, so a named open network is always handed over, and
\* ssid "Home", nopass, no password, not hidden gives WIFI:T:nopass;S:Home;P:;;
C7_WiFiFormat ==
  (type = "wifi" /\ pc # "called") =>
    LET d == params.wifiData
    IN  /\ Len(handed) = 1 =>
             handed[1] = Concat(<< <<"W", "I", "F", "I", ":">>,
                                   <<"T", ":">> \o d.encryption,
                                   <<";", "S", ":">> \o d.ssid,
                                   <<";", "P", ":">> \o d.password,
                                   IF d.hidden = TRUE THEN <<";", "H", ":", "t", "r", "u", "e">>
                                                      ELSE <<>>,
                                   <<";", ";">> >>)
        /\ d.encryption = Nopass => ~FailsWith("Please enter a network password")
        /\ (d.encryption = Nopass /\ ~Blank(d.ssid)) => Len(handed) = 1
        /\ (d.ssid = Home /\ d.encryption = Nopass /\ d.password = <<>> /\ ~d.hidden)
             => Len(handed) = 1 /\ Join(handed[1]) = "WIFI:T:nopass;S:Home;P:;;"

\* The open network "Home" with no password was handed over.
C7_Witness ==
  /\ type = "wifi"
  /\ params.wifiData = [ssid |-> Home, password |-> <<>>, encryption |-> Nopass, hidden |-> FALSE]
  /\ pc = "awaiting"
  /\ Join(handed[1]) = "WIFI:T:nopass;S:Home;P:;;"

\* A value that is present and does not have the shape the field requires.
BadEmail(v) == v # <<>> /\ ~MatchesEmail(v)

BadPhone(v) == v # <<>> /\ \E i \in 1..Len(v) : v[i] \notin PhoneChars

\* C8: validation reports the first failing check of a fixed order.  For a
\* contact: names, then email, then mobile, phone, workPhone, fax; for an
\* email or sms payload the blank-field message comes before the format
\* message; for a WiFi payload the ssid comes before the password.
C8_FirstFailingCheck ==
  pc # "called" =>
    /\ type = "vcard" =>
         LET d     == params.vcardData
             names == ~Blank(d.firstName) /\ ~Blank(d.lastName)
         IN  /\ ~names => FailsWith("Please enter both first and last name")
             /\ (names /\ BadEmail(d.email)) => FailsWith("Please enter a valid email address")
             /\ (names /\ ~BadEmail(d.email) /\ BadPhone(d.mobile))
                  => FailsWith("Please enter a valid mobile")
             /\ (names /\ ~BadEmail(d.email) /\ ~BadPhone(d.mobile) /\ BadPhone(d.phone))
                  => FailsWith("Please enter a valid phone")
             /\ (names /\ ~BadEmail(d.email) /\ ~BadPhone(d.mobile) /\ ~BadPhone(d.phone)
                   /\ BadPhone(d.workPhone))
                  => FailsWith("Please enter a valid work phone")
             /\ (names /\ ~BadEmail(d.email) /\ ~BadPhone(d.mobile) /\ ~BadPhone(d.phone)
                   /\ ~BadPhone(d.workPhone) /\ BadPhone(d.fax))
                  => FailsWith("Please enter a valid fax")
             /\ (names /\ ~BadEmail(d.email) /\ ~BadPhone(d.mobile) /\ ~BadPhone(d.phone)
                   /\ ~BadPhone(d.workPhone) /\ ~BadPhone(d.fax))
                  => Len(handed) = 1
    /\ type = "email" =>
         /\ Blank(params.emailData.email) => FailsWith("Please enter an email address")
         /\ (~Blank(params.emailData.email) /\ ~MatchesEmail(params.emailData.email))
              => FailsWith("Please enter a valid email address")
    /\ type = "sms" =>
         /\ Blank(params.smsData.phone) => FailsWith("Please enter a phone number")
         /\ (~Blank(params.smsData.phone) /\ BadPhone(params.smsData.phone))
              => FailsWith("Please enter a valid phone number")
    /\ (type = "wifi" /\ Blank(params.wifiData.ssid))
         => FailsWith("Please enter a network name (SSID)")

\* A contact with a malformed email and malformed phone numbers was rejected
\* with the email message.
C8_Witness ==
  /\ type = "vcard"
  /\ ~Blank(params.vcardData.firstName) /\ ~Blank(params.vcardData.lastName)
  /\ BadEmail(params.vcardData.email)
  /\ BadPhone(params.vcardData.mobile)
  /\ BadPhone(params.vcardData.fax)
  /\ FailsWith("Please enter a valid email address")

\* C9: text that is not blank is handed to the rasterizer trimmed.
C9_TextIsTrimmed ==
  (type = "text" /\ ~Blank(params.text) /\ pc # "called") =>
    handed = <<trim(params.text)>>

PhoneOrder == <<"mobile", "phone", "workPhone", "fax">>

\* The names the claim gives the phone fields: camel case split into words.
SplitLabels == <<"mobile", "phone", "work Phone", "fax">>

\* The names the messages carry: split into words and lower-cased.
LowerLabels == <<"mobile", "phone", "work phone", "fax">>

\* A present value with a character outside the given set.
Offends(v, permitted) == v # <<>> /\ \E i \in 1..Len(v) : v[i] \notin permitted

\* A contact whose names and email pass validation has been validated.
PhonesDecide ==
  /\ type = "vcard"
  /\ pc # "called"
  /\ ~Blank(params.vcardData.firstName)
  /\ ~Blank(params.vcardData.lastName)
  /\ ~BadEmail(params.vcardData.email)

\* C10 as written: a phone field with a character other than +, a digit, a
\* space, a hyphen or a parenthesis fails the call with a message naming an
\* offending field, workPhone as "work Phone"; without such a field the
\* contact passes.
C10_PhoneFieldMessage_Original ==
  PhonesDecide =>
    LET permitted == {"+", " ", "-", "(", ")"} \cup Digits
        offending == {i \in 1..4 : Offends(params.vcardData[PhoneOrder[i]], permitted)}
    IN  /\ offending # {} =>
             \E i \in offending : FailsWith("Please enter a valid " \o SplitLabels[i])
        /\ offending = {} => Len(handed) = 1

\* C10 (amended): a phone field with a character other than +, a digit, a
\* whitespace character, a hyphen or a parenthesis fails the call with
\* "Please enter a valid <name>", <name> being the name of the first such
\* field in the order mobile, phone, workPhone, fax, split into words and
\* lower-cased (workPhone is "work phone"); without such a field the contact
\* passes.
C10_PhoneFieldMessage ==
  PhonesDecide =>
    LET permitted == {"+", "-", "(", ")"} \cup Digits \cup WhiteSpace
        offending == {i \in 1..4 : Offends(params.vcardData[PhoneOrder[i]], permitted)}
    IN  /\ \A i \in offending :
             (\A j \in offending : i <= j)
               => FailsWith("Please enter a valid " \o LowerLabels[i])
        /\ offending = {} => Len(handed) = 1

\* A contact whose only offending phone field is workPhone was rejected with
\* the message naming "work phone".
C10_Witness ==
  /\ PhonesDecide
  /\ params.vcardData.workPhone = <<"x">>
  /\ params.vcardData.mobile = <<"1">>
  /\ FailsWith("Please enter a valid work phone")

====
